---- MODULE Spec2Model ----
(***************************************************************************)
(* LexerSearchUI: the share-link codec, the editor-parts translator, the   *)
(* pattern compiler/executor (src/src/io.rs) and the yew App component     *)
(* that drives them (src/src/main.rs).                                     *)
(*                                                                         *)
(* Representation.  A Rust String that is serialized byte by byte          *)
(* (subject, pattern, name, group, map keys and values) is a sequence of   *)
(* bytes 0..255.  A String that is a URL or a share token is a sequence    *)
(* of one-character strings.  The YAML text of the rule list is a          *)
(* sequence of lines, each a record (see editor_lhs).                      *)
(*                                                                         *)
(* Two specifications.  SpecCore applies one function of io.rs to one      *)
(* config (the page stays as first opened).  Spec is the page: App::create *)
(* at an address, then the messages of App::update, the edits of the user  *)
(* and the opening of a copied link (cfg and call stay as they start).     *)
(***************************************************************************)
EXTENDS Integers, Sequences, FiniteSets, TLC

\* ------------------------------------------------------------------ bounds
\* longest run of pattern strings in one matching unit
MaxPatterns == 2
\* most matching units in a rule list
MaxUnits == 2
\* most matches the matcher delivers to the sink in one run
MaxMatches == 2
\* most symbols cut from the end of a token
MaxCut == 2
\* most messages handled and pages opened in one behaviour
MaxMsgs == 3

\* ------------------------------------------------------------- base_x codec
ALPHABET ==
  << "A","B","C","D","E","F","G","H","I","J","K","L","M","N","O","P","Q","R",
     "S","T","U","V","W","X","Y","Z","a","b","c","d","e","f","g","h","i","j",
     "k","l","m","n","o","p","q","r","s","t","u","v","w","x","y","z","0","1",
     "2","3","4","5","6","7","8","9","-","_",".","~","/",":","@","!","$","&",
     "'","(",")","*","+",",",";","=" >>

\* number of symbols of the alphabet (the radix of the token)
Radix == Len(ALPHABET)

RECURSIVE StripZeros(_)
StripZeros(s) ==
  IF s = <<>> \/ Head(s) # 0 THEN s ELSE StripZeros(Tail(s))

\* one long division of the big-endian number num[lo..hi] (digits in radix from)
\* by to, entered with remainder r: the quotient digits and the remainder
RECURSIVE DivStep(_, _, _, _, _, _)
DivStep(num, lo, hi, from, to, r) ==
  IF lo = hi
  THEN LET cur == r * from + num[lo]
       IN [q |-> << cur \div to >>, r |-> cur % to]
  ELSE LET mid   == (lo + hi) \div 2
           left  == DivStep(num, lo, mid, from, to, r)
           right == DivStep(num, mid + 1, hi, from, to, left.r)
       IN [q |-> left.q \o right.q, r |-> right.r]

\* one round of the conversion: the number divided by to, its remainder put in
\* front of the digits found so far; nothing once the number is used up
ToBaseStep(st, from, to) ==
  LET n == StripZeros(st.num)
  IN IF n = <<>> THEN [num |-> <<>>, out |-> st.out]
     ELSE LET d == DivStep(n, 1, Len(n), from, to, 0)
          IN [num |-> d.q, out |-> << d.r >> \o st.out]

\* k rounds of ToBaseStep (the first half is computed before the second starts)
RECURSIVE ToBaseRounds(_, _, _, _)
ToBaseRounds(st, k, from, to) ==
  IF k = 0 THEN st
  ELSE IF k = 1 THEN ToBaseStep(st, from, to)
  ELSE LET half == ToBaseRounds(st, k \div 2, from, to)
       IN IF Len(half.num) >= 0
          THEN ToBaseRounds(half, k - k \div 2, from, to)
          ELSE half

\* the digits of num (radix from) in radix to, most significant first; a
\* number of Len(num) digits has fewer than 2 * Len(num) + 1 digits in a
\* radix of 80 or 256
ToBase(num, from, to) ==
  ToBaseRounds([num |-> num, out |-> <<>>], 2 * Len(num) + 1, from, to).out

\* number of leading elements equal to z among the first Len(s)-1 elements
RECURSIVE Leaders(_, _)
Leaders(s, z) ==
  IF Len(s) <= 1 \/ Head(s) # z THEN 0 ELSE 1 + Leaders(Tail(s), z)

Zeros(n) == [i \in 1..n |-> 0]

\* the index (from 0) of each symbol of ALPHABET
AlphabetIndex ==
  [ch \in { ALPHABET[i] : i \in 1..Radix } |->
     (CHOOSE i \in 1..Radix : ALPHABET[i] = ch) - 1]

\* index (from 0) of symbol ch in ALPHABET, or -1
Lookup(ch) ==
  IF ch \in DOMAIN AlphabetIndex THEN AlphabetIndex[ch] ELSE -1

\* base_x::encode(ALPHABET, data)
encode_bytes(data) ==
  IF data = <<>> THEN <<>>
  ELSE LET ds  == ToBase(data, 256, Radix)
           dig == Zeros(Leaders(data, 0)) \o (IF ds = <<>> THEN <<0>> ELSE ds)
       IN [i \in 1..Len(dig) |-> ALPHABET[dig[i] + 1]]

\* base_x::decode(ALPHABET, s): Err on a symbol outside the alphabet
decode_bytes(s) ==
  IF s = <<>> THEN [ok |-> TRUE, val |-> <<>>]
  ELSE IF \E i \in 1..Len(s) : Lookup(s[i]) = -1 THEN [ok |-> FALSE, val |-> <<>>]
  ELSE LET dig == [i \in 1..Len(s) |-> Lookup(s[i])]
       IN [ok |-> TRUE,
           val |-> Zeros(Leaders(dig, 0)) \o ToBase(dig, Radix, 256)]

\* ------------------------------------------------------------ config model
\* lexer_search_lib::io::Language, in the order the variants are matched in
\* monaco_language; the position (from 0) is the variant index bincode writes
Languages == << "C", "Cpp", "CSharp", "Go", "Java", "Js", "Kotlin", "Py", "Rust", "Ts" >>

LanguageSet == { Languages[i] : i \in 1..Len(Languages) }

VariantIndex(l) == (CHOOSE i \in 1..Len(Languages) : Languages[i] = l) - 1

\* byte-wise lexicographic order of two Strings (Ord for String)
RECURSIVE Less(_, _)
Less(a, b) ==
  IF b = <<>> THEN FALSE
  ELSE IF a = <<>> THEN TRUE
  ELSE IF Head(a) # Head(b) THEN Head(a) < Head(b)
  ELSE Less(Tail(a), Tail(b))

\* BTreeMap<String, String>: the entries <<key, value>> in ascending key order
RECURSIVE MapInsert(_, _, _)
MapInsert(m, k, v) ==
  IF m = <<>> THEN << <<k, v>> >>
  ELSE IF Head(m)[1] = k THEN << <<k, v>> >> \o Tail(m)
  ELSE IF Less(k, Head(m)[1]) THEN << <<k, v>> >> \o m
  ELSE << Head(m) >> \o MapInsert(Tail(m), k, v)

EmptyMap == <<>>

MatchingUnit(patterns, name, group, out, transform) ==
  [patterns |-> patterns, name |-> name, group |-> group,
   out |-> out, transform |-> transform]

PlaygroundConfig(subject, language, lhs) ==
  [subject |-> subject, language |-> language, lhs |-> lhs]

\* impl Default for PlaygroundConfig
DefaultSubject == <<108,101,116,32,120,32,61,32,34,104,105,34,59,10,112,114,105,110,116,108,110,33,40,34,123,120,125,34,41,59>>
DefaultPattern == <<38,95,86,65,82,32,61,32,36,95,83,84,82,59,10,46,46,46,10,112,114,105,110,116,108,110,33,40,36,95,70,77,84,41>>
DefaultName == <<104,101,108,108,111,95,119,111,114,108,100>>
DefaultTransformKey == <<95,70,77,84>>
DefaultTransformValue == <<94,92,123,40,63,60,95,86,65,82,62,91,94,125,93,43,41,125,36>>

\* a default with nothing in it
DefaultBlank == PlaygroundConfig(<<>>, "Rust", <<>>)

Default ==
  PlaygroundConfig(
    DefaultSubject,
    "Rust",
    << MatchingUnit(<< DefaultPattern >>, DefaultName, <<>>, EmptyMap,
                    MapInsert(EmptyMap, DefaultTransformKey, DefaultTransformValue)) >>)

\* ------------------------------------------------------- bincode (standard)
\* a failed decode (val and rest are unused)
Fail == [ok |-> FALSE, val |-> <<>>, rest |-> <<>>]

Ok(v, rest) == [ok |-> TRUE, val |-> v, rest |-> rest]

\* varint: one byte below 251, else a marker byte and a little-endian integer
EncVarint(n) ==
  IF n < 251 THEN << n >> ELSE << 251, n % 256, (n \div 256) % 256 >>

\* the little-endian integer in b[2..1+n]; from 2^16 up it is larger than any
\* length or variant of the model, and 2^30 stands for it
LittleEndian(b, n) ==
  IF \E i \in 4..(1 + n) : b[i] # 0 THEN 1073741824 ELSE b[2] + 256 * b[3]

\* maxMarker: 252 for a u32 (an enum variant), 253 for a usize (a length)
DecVarint(b, maxMarker) ==
  IF b = <<>> THEN Fail
  ELSE IF b[1] < 251 THEN Ok(b[1], Tail(b))
  ELSE IF b[1] > maxMarker THEN Fail
  ELSE LET n == IF b[1] = 251 THEN 2 ELSE IF b[1] = 252 THEN 4 ELSE 8
       IN IF Len(b) < 1 + n THEN Fail
          ELSE Ok(LittleEndian(b, n), SubSeq(b, 2 + n, Len(b)))

\* the model's Strings are ASCII; a byte from 128 up is never written by the
\* encoder, and alone it is not UTF-8
IsUtf8(s) == \A i \in 1..Len(s) : s[i] < 128

EncString(s) == EncVarint(Len(s)) \o s

\* the n.val bytes after a decoded length n, as a String
TakeString(n) ==
  IF ~n.ok \/ n.val > Len(n.rest) THEN Fail
  ELSE IF IsUtf8(SubSeq(n.rest, 1, n.val))
  THEN Ok(SubSeq(n.rest, 1, n.val), SubSeq(n.rest, n.val + 1, Len(n.rest)))
  ELSE Fail

DecString(b) == TakeString(DecVarint(b, 253))

\* a decode that has read st.val goes on with r, read from st.rest
AndThen(st, r) ==
  IF ~st.ok \/ ~r.ok THEN Fail ELSE Ok(Append(st.val, r.val), r.rest)

RECURSIVE EncStrings(_)
EncStrings(v) ==
  IF v = <<>> THEN <<>> ELSE EncString(Head(v)) \o EncStrings(Tail(v))

EncVecString(v) == EncVarint(Len(v)) \o EncStrings(v)

\* n more Strings after those of st.val
RECURSIVE DecStrings(_, _)
DecStrings(st, n) ==
  IF n = 0 \/ ~st.ok THEN st
  ELSE DecStrings(AndThen(st, DecString(st.rest)), n - 1)

\* the elements after a decoded length n
TakeStrings(n) ==
  IF ~n.ok THEN Fail ELSE DecStrings(Ok(<<>>, n.rest), n.val)

DecVecString(b) == TakeStrings(DecVarint(b, 253))

RECURSIVE EncEntries(_)
EncEntries(m) ==
  IF m = <<>> THEN <<>>
  ELSE EncString(Head(m)[1]) \o EncString(Head(m)[2]) \o EncEntries(Tail(m))

EncMap(m) == EncVarint(Len(m)) \o EncEntries(m)

\* the map of st.val with the entry of key k.val and value v.val
WithEntry(st, k, v) ==
  IF ~st.ok \/ ~k.ok \/ ~v.ok THEN Fail
  ELSE Ok(MapInsert(st.val, k.val, v.val), v.rest)

\* the entry that follows a decoded key k
WithKey(st, k) == WithEntry(st, k, DecString(k.rest))

\* n more entries after those of st.val
RECURSIVE DecEntries(_, _)
DecEntries(st, n) ==
  IF n = 0 \/ ~st.ok THEN st
  ELSE DecEntries(WithKey(st, DecString(st.rest)), n - 1)

TakeEntries(n) ==
  IF ~n.ok THEN Fail ELSE DecEntries(Ok(EmptyMap, n.rest), n.val)

DecMap(b) == TakeEntries(DecVarint(b, 253))

EncUnit(u) ==
  EncVecString(u.patterns) \o EncString(u.name) \o EncString(u.group)
    \o EncMap(u.out) \o EncMap(u.transform)

\* the fields of a MatchingUnit read so far, as a tuple
UnitOf(st) ==
  IF ~st.ok THEN Fail
  ELSE Ok(MatchingUnit(st.val[1], st.val[2], st.val[3], st.val[4], st.val[5]), st.rest)

PatternsField(st) == AndThen(st, DecVecString(st.rest))

StringField(st) == AndThen(st, DecString(st.rest))

MapField(st) == AndThen(st, DecMap(st.rest))

DecUnit(b) ==
  UnitOf(MapField(MapField(StringField(StringField(PatternsField(Ok(<<>>, b)))))))

RECURSIVE EncUnits(_)
EncUnits(l) ==
  IF l = <<>> THEN <<>> ELSE EncUnit(Head(l)) \o EncUnits(Tail(l))

\* n more units after those of st.val
RECURSIVE DecUnits(_, _)
DecUnits(st, n) ==
  IF n = 0 \/ ~st.ok THEN st
  ELSE DecUnits(AndThen(st, DecUnit(st.rest)), n - 1)

TakeUnits(n) ==
  IF ~n.ok THEN Fail ELSE DecUnits(Ok(<<>>, n.rest), n.val)

DecVecUnit(b) == TakeUnits(DecVarint(b, 253))

\* the variant of Language with a decoded index l
TakeLanguage(l) ==
  IF ~l.ok \/ l.val >= Len(Languages) THEN Fail
  ELSE Ok(Languages[l.val + 1], l.rest)

DecLanguage(b) == TakeLanguage(DecVarint(b, 252))

\* the subject field as derive(Serialize) writes it:
\* #[serde(default, skip_serializing_if = "String::is_empty")]
EncSubject(subject) ==
  IF subject = <<>> THEN <<>> ELSE EncString(subject)

\* bincode::serde::encode_to_vec(self, standard()): the fields in order
bincode_encode(c) ==
  EncSubject(c.subject) \o EncVarint(VariantIndex(c.language))
    \o EncVarint(Len(c.lhs)) \o EncUnits(c.lhs)

\* bincode::serde::decode_from_slice(bytes, standard()): the three fields are
\* read as a tuple, bytes left over after the record are ignored
LanguageField(st) == AndThen(st, DecLanguage(st.rest))

LhsField(st) == AndThen(st, DecVecUnit(st.rest))

ConfigOf(st) ==
  IF ~st.ok THEN Fail
  ELSE Ok(PlaygroundConfig(st.val[1], st.val[2], st.val[3]), st.rest)

bincode_decode(b) == ConfigOf(LhsField(LanguageField(StringField(Ok(<<>>, b)))))

\* ------------------------------------------------------------------- zstd
\* A frame is modelled as written with raw blocks: magic number, frame header
\* descriptor 0, window descriptor, then blocks of a 3-byte header
\* (last | type * 2 | size * 8, little-endian) and their content.
ZstdMagic == << 40, 181, 47, 253 >>

BlockHeader(size, is_last) ==
  LET v == size * 8 + (IF is_last THEN 1 ELSE 0)
  IN << v % 256, (v \div 256) % 256, v \div 65536 >>

\* zstd::encode_all(data, 22)
zstd_encode_all(data) ==
  ZstdMagic \o << 0, 88 >> \o BlockHeader(Len(data), TRUE) \o data

\* the header of the block at the front of b
BlockAt(b) ==
  [last |-> b[1] % 2 = 1,
   type |-> (b[1] \div 2) % 4,
   size |-> b[1] \div 8 + 32 * b[2] + 8192 * b[3]]

\* the blocks of one frame after the content acc: raw (type 0) and run-length
\* (type 1) blocks
RECURSIVE DecBlocks(_, _)

\* the block with header h and the bytes body after it
DecBlock(h, body, acc) ==
  IF h.type = 0 /\ Len(body) >= h.size
  THEN IF h.last THEN Ok(acc \o SubSeq(body, 1, h.size), SubSeq(body, h.size + 1, Len(body)))
       ELSE DecBlocks(SubSeq(body, h.size + 1, Len(body)), acc \o SubSeq(body, 1, h.size))
  ELSE IF h.type = 1 /\ body # <<>>
  THEN IF h.last THEN Ok(acc \o [i \in 1..h.size |-> body[1]], Tail(body))
       ELSE DecBlocks(Tail(body), acc \o [i \in 1..h.size |-> body[1]])
  ELSE Fail

DecBlocks(b, acc) ==
  IF Len(b) < 3 THEN Fail ELSE DecBlock(BlockAt(b), SubSeq(b, 4, Len(b)), acc)

\* zstd::decode_all(bytes): one or more frames up to the end of the input;
\* no frame at all, a wrong magic number or a cut frame is an error
RECURSIVE DecFrames(_, _)

\* after the blocks of a frame: the end of the input or the next frame
AfterFrame(blocks) ==
  IF ~blocks.ok THEN Fail
  ELSE IF blocks.rest = <<>> THEN Ok(blocks.val, <<>>)
  ELSE DecFrames(blocks.rest, blocks.val)

DecFrames(b, acc) ==
  IF Len(b) < 6 \/ SubSeq(b, 1, 4) # ZstdMagic \/ b[5] # 0 THEN Fail
  ELSE AfterFrame(DecBlocks(SubSeq(b, 7, Len(b)), acc))

zstd_decode_all(b) == DecFrames(b, <<>>)

\* -------------------------------------------------------------- share link
\* build.public_url of Trunk.toml (the pathname main.rs names: "/LexerSearchUI/")
TrunkPublicUrl ==
  << "/", "L", "e", "x", "e", "r", "S", "e", "a", "r", "c", "h", "U", "I", "/" >>

\* str::strip_prefix('/') .unwrap_or(whole)
StripSlash(s) ==
  IF s # <<>> /\ Head(s) = "/" THEN Tail(s) ELSE s

\* build.rs writes the public url without its leading slash, then "#/"
PUBLIC_URL == StripSlash(TrunkPublicUrl) \o << "#", "/" >>

StartsWith(s, prefix) ==
  Len(s) >= Len(prefix) /\ SubSeq(s, 1, Len(prefix)) = prefix

to_url_str(c) == encode_bytes(zstd_encode_all(bincode_encode(c)))

\* the string from_url_str decodes: the input without the public prefix
UrlToken(s) ==
  IF StartsWith(s, PUBLIC_URL) THEN SubSeq(s, Len(PUBLIC_URL) + 1, Len(s)) ELSE s

\* from_url_str with the stages it ran: cfg is what it returns
AllStages == << "decode_bytes", "decode_all", "decode_from_slice" >>

Defaulted(stages) ==
  [cfg |-> Default, failed |-> TRUE, ran |-> SubSeq(AllStages, 1, stages)]

AfterDeserialize(decoded) ==
  IF ~decoded.ok THEN Defaulted(3)
  ELSE [cfg |-> decoded.val, failed |-> FALSE, ran |-> AllStages]

\* AfterDecompress with a failed decompression not ending the decode
AfterDecompressFallsThrough(decompressed) ==
  AfterDeserialize(bincode_decode(decompressed.val))

AfterDecompress(decompressed) ==
  IF ~decompressed.ok THEN Defaulted(2)
  ELSE AfterDeserialize(bincode_decode(decompressed.val))

AfterDecode(compressed) ==
  IF ~compressed.ok THEN Defaulted(1)
  ELSE AfterDecompress(zstd_decode_all(compressed.val))

FromUrlStrRun(s) == AfterDecode(decode_bytes(UrlToken(s)))

from_url_str(s) == FromUrlStrRun(s).cfg

\* ------------------------------------------------------------ editor parts
\* monaco_language with the name of JavaScript given to TypeScript too
monaco_language_ts_as_js(c) ==
  CASE c.language = "C"      -> "c"
    [] c.language = "Cpp"    -> "cpp"
    [] c.language = "CSharp" -> "csharp"
    [] c.language = "Go"     -> "go"
    [] c.language = "Java"   -> "java"
    [] c.language = "Js"     -> "javascript"
    [] c.language = "Kotlin" -> "kotlin"
    [] c.language = "Py"     -> "python"
    [] c.language = "Rust"   -> "rust"
    [] c.language = "Ts"     -> "javascript"

monaco_language(c) ==
  CASE c.language = "C"      -> "c"
    [] c.language = "Cpp"    -> "cpp"
    [] c.language = "CSharp" -> "csharp"
    [] c.language = "Go"     -> "go"
    [] c.language = "Java"   -> "java"
    [] c.language = "Js"     -> "javascript"
    [] c.language = "Kotlin" -> "kotlin"
    [] c.language = "Py"     -> "python"
    [] c.language = "Rust"   -> "rust"
    [] c.language = "Ts"     -> "typescript"

\* the values of the language <select> of App::view
DisplayLanguages ==
  { "c", "cpp", "csharp", "go", "java", "javascript", "kotlin", "python",
    "rust", "typescript" }

\* serde_yml::from_str::<Language>(language): the tags Language's Deserialize
\* accepts are those of lexer_search_lib; taken to be the display names
ParseLanguage(tag) ==
  CASE tag = "c"          -> [ok |-> TRUE, val |-> "C", err |-> ""]
    [] tag = "cpp"        -> [ok |-> TRUE, val |-> "Cpp", err |-> ""]
    [] tag = "csharp"     -> [ok |-> TRUE, val |-> "CSharp", err |-> ""]
    [] tag = "go"         -> [ok |-> TRUE, val |-> "Go", err |-> ""]
    [] tag = "java"       -> [ok |-> TRUE, val |-> "Java", err |-> ""]
    [] tag = "javascript" -> [ok |-> TRUE, val |-> "Js", err |-> ""]
    [] tag = "kotlin"     -> [ok |-> TRUE, val |-> "Kotlin", err |-> ""]
    [] tag = "python"     -> [ok |-> TRUE, val |-> "Py", err |-> ""]
    [] tag = "rust"       -> [ok |-> TRUE, val |-> "Rust", err |-> ""]
    [] tag = "typescript" -> [ok |-> TRUE, val |-> "Ts", err |-> ""]
    [] OTHER              -> [ok |-> FALSE, val |-> "", err |-> "unknown variant"]

\* One line of the block-style YAML text of a Vec<MatchingUnit>.
\*   t = "[]"                    the empty sequence
\*   t = "scalar"                "field: v"         (name, group)
\*   t = "empty_seq"/"empty_map" "field: []" / "field: {}"
\*   t = "block"                 "field:"           (items or entries follow)
\*   t = "item"                  "- v"              (one pattern)
\*   t = "entry"                 "k: v"             (one map entry)
\* dash marks the line that opens a unit ("- field: ...").
Line(t, dash, fld, k, v) ==
  [t |-> t, dash |-> dash, field |-> fld, k |-> k, v |-> v]

RECURSIVE ItemLines(_)
ItemLines(patterns) ==
  IF patterns = <<>> THEN <<>>
  ELSE << Line("item", FALSE, "", <<>>, Head(patterns)) >> \o ItemLines(Tail(patterns))

RECURSIVE EntryLines(_)
EntryLines(m) ==
  IF m = <<>> THEN <<>>
  ELSE << Line("entry", FALSE, "", Head(m)[1], Head(m)[2]) >> \o EntryLines(Tail(m))

MapLines(fld, m) ==
  IF m = <<>> THEN << Line("empty_map", FALSE, fld, <<>>, <<>>) >>
  ELSE << Line("block", FALSE, fld, <<>>, <<>>) >> \o EntryLines(m)

UnitLines(u) ==
  (IF u.patterns = <<>>
   THEN << Line("empty_seq", TRUE, "patterns", <<>>, <<>>) >>
   ELSE << Line("block", TRUE, "patterns", <<>>, <<>>) >> \o ItemLines(u.patterns))
    \o << Line("scalar", FALSE, "name", <<>>, u.name),
          Line("scalar", FALSE, "group", <<>>, u.group) >>
    \o MapLines("out", u.out) \o MapLines("transform", u.transform)

RECURSIVE UnitsLines(_)
UnitsLines(l) ==
  IF l = <<>> THEN <<>> ELSE UnitLines(Head(l)) \o UnitsLines(Tail(l))

\* serde_yml::to_string(&self.lhs)
editor_lhs(c) ==
  IF c.lhs = <<>> THEN << Line("[]", FALSE, "", <<>>, <<>>) >>
  ELSE UnitsLines(c.lhs)

UnitFields == { "patterns", "name", "group", "out", "transform" }

ParseErr(msg) == [ok |-> FALSE, err |-> msg]

\* the unit being read: the fields seen so far, the block that is open and the
\* number of lines read into it
NoUnit == [seen |-> {}, open |-> "", n |-> 0,
           u |-> MatchingUnit(<<>>, <<>>, <<>>, EmptyMap, EmptyMap)]

\* a unit is complete when every field was given and no block is left empty
UnitDone(cur) ==
  IF cur.open # "" /\ cur.n = 0 THEN ParseErr("invalid type")
  ELSE IF cur.seen # UnitFields THEN ParseErr("missing field")
  ELSE [ok |-> TRUE, val |-> cur.u]

\* the unit after one "field ..." line
UnitField(cur, ln) ==
  IF cur.open # "" /\ cur.n = 0 THEN ParseErr("invalid type")
  ELSE IF ln.field \notin UnitFields THEN ParseErr("unknown field")
  ELSE IF ln.field \in cur.seen THEN ParseErr("duplicate field")
  ELSE LET seen == cur.seen \cup { ln.field }
       IN CASE ln.t = "scalar" /\ ln.field \in { "name", "group" } ->
                 [ok |-> TRUE,
                  val |-> [seen |-> seen, open |-> "", n |-> 0,
                           u |-> [cur.u EXCEPT ![ln.field] = ln.v]]]
            [] ln.t = "empty_seq" /\ ln.field = "patterns" ->
                 [ok |-> TRUE,
                  val |-> [seen |-> seen, open |-> "", n |-> 0, u |-> cur.u]]
            [] ln.t = "empty_map" /\ ln.field \in { "out", "transform" } ->
                 [ok |-> TRUE,
                  val |-> [seen |-> seen, open |-> "", n |-> 0, u |-> cur.u]]
            [] ln.t = "block" /\ ln.field \in { "patterns", "out", "transform" } ->
                 [ok |-> TRUE,
                  val |-> [seen |-> seen, open |-> ln.field, n |-> 0, u |-> cur.u]]
            [] OTHER -> ParseErr("invalid type")

\* the lines from i on, read into the units done and the unit under way
RECURSIVE ParseLines(_, _, _, _, _)
ParseLines(lines, i, done, cur, started) ==
  IF i > Len(lines)
  THEN IF ~started THEN [ok |-> TRUE, val |-> done]
       ELSE LET u == UnitDone(cur)
            IN IF u.ok THEN [ok |-> TRUE, val |-> Append(done, u.val)] ELSE u
  ELSE LET ln == lines[i]
       IN CASE ln.t \in { "scalar", "empty_seq", "empty_map", "block" } /\ ln.dash ->
                 IF ~started
                 THEN LET f == UnitField(NoUnit, ln)
                      IN IF f.ok THEN ParseLines(lines, i + 1, done, f.val, TRUE) ELSE f
                 ELSE LET u == UnitDone(cur)
                          f == UnitField(NoUnit, ln)
                      IN IF ~u.ok THEN u
                         ELSE IF ~f.ok THEN f
                         ELSE ParseLines(lines, i + 1, Append(done, u.val), f.val, TRUE)
            [] ln.t \in { "scalar", "empty_seq", "empty_map", "block" } /\ ~ln.dash ->
                 IF ~started THEN ParseErr("invalid type")
                 ELSE LET f == UnitField(cur, ln)
                      IN IF f.ok THEN ParseLines(lines, i + 1, done, f.val, TRUE) ELSE f
            [] ln.t = "item" ->
                 IF started /\ cur.open = "patterns"
                 THEN ParseLines(lines, i + 1, done,
                        [cur EXCEPT !.n = @ + 1,
                                    !.u.patterns = Append(@, ln.v)], TRUE)
                 ELSE ParseErr("invalid type")
            [] ln.t = "entry" ->
                 IF started /\ cur.open \in { "out", "transform" }
                 THEN ParseLines(lines, i + 1, done,
                        [cur EXCEPT !.n = @ + 1,
                                    !.u[cur.open] = MapInsert(@, ln.k, ln.v)], TRUE)
                 ELSE ParseErr("invalid type")
            [] OTHER -> ParseErr("did not find expected node content")

\* serde_yml::from_str::<Vec<MatchingUnit>>(editor_lhs)
ParseLhs(lines) ==
  IF lines = << Line("[]", FALSE, "", <<>>, <<>>) >> THEN [ok |-> TRUE, val |-> <<>>]
  ELSE ParseLines(lines, 1, <<>>, NoUnit, FALSE)

\* from_editor_parts falling back to the default config as from_url_str does
from_editor_parts_defaulting(subject, language, lhs_text) ==
  IF ParseLhs(lhs_text).ok /\ ParseLanguage(language).ok
  THEN [ok |-> TRUE,
        val |-> PlaygroundConfig(subject, ParseLanguage(language).val,
                                 ParseLhs(lhs_text).val)]
  ELSE [ok |-> TRUE, val |-> Default]

from_editor_parts(subject, language, lhs_text) ==
  LET lhs == ParseLhs(lhs_text)
  IN IF ~lhs.ok THEN [ok |-> FALSE, err |-> lhs.err]
     ELSE LET lang == ParseLanguage(language)
     IN IF ~lang.ok THEN [ok |-> FALSE, err |-> lang.err]
     ELSE [ok |-> TRUE, val |-> PlaygroundConfig(subject, lang.val, lhs.val)]

\* (lhs, rhs, lang)
to_editor_parts(c) == << editor_lhs(c), c.subject, monaco_language(c) >>

\* ------------------------------------------------- pattern compiler/executor
CLike(bracket, pattern_mode) ==
  [family |-> "CLike", args |-> << bracket, pattern_mode >>]

PythonLike(pattern_mode) == [family |-> "PythonLike", args |-> << pattern_mode >>]

RustLike(pattern_mode) == [family |-> "RustLike", args |-> << pattern_mode >>]

\* the lexer built for each pattern before trie.add_pattern
PatternLexer(language) ==
  CASE language \in { "C", "Cpp", "CSharp", "Java" } -> CLike(FALSE, TRUE)
    [] language \in { "Go", "Js", "Ts", "Kotlin" }   -> CLike(TRUE, TRUE)
    [] language = "Py"                               -> PythonLike(TRUE)
    [] language = "Rust"                             -> RustLike(TRUE)

\* SubjectLexer with Kotlin among the languages of the other bracket convention
SubjectLexerKotlinOff(language) ==
  CASE language \in { "C", "Cpp", "CSharp", "Java", "Kotlin" } -> CLike(FALSE, FALSE)
    [] language \in { "Go", "Js", "Ts" }                       -> CLike(TRUE, FALSE)
    [] language = "Py"                                         -> PythonLike(FALSE)
    [] language = "Rust"                                       -> RustLike(FALSE)

\* the lexer built for the subject before matcher.process_and_drain
SubjectLexer(language) ==
  CASE language \in { "C", "Cpp", "CSharp", "Java" } -> CLike(FALSE, FALSE)
    [] language \in { "Go", "Js", "Ts", "Kotlin" }   -> CLike(TRUE, FALSE)
    [] language = "Py"                               -> PythonLike(FALSE)
    [] language = "Rust"                             -> RustLike(FALSE)

\* the patterns of the rule list in the order the two loops of run visit them
RECURSIVE UnitPatterns(_, _)
UnitPatterns(unit, i) ==
  IF i > Len(unit.patterns) THEN <<>>
  ELSE << [pattern |-> unit.patterns[i], name |-> unit.name, group |-> unit.group,
           out |-> unit.out, transform |-> unit.transform] >>
       \o UnitPatterns(unit, i + 1)

RECURSIVE AllPatterns(_)
AllPatterns(lhs) ==
  IF lhs = <<>> THEN <<>>
  ELSE UnitPatterns(Head(lhs), 1) \o AllPatterns(Tail(lhs))

\* What the matching engine does in one run, which the caller cannot choose:
\*   bad      the position of the first pattern trie.add_pattern rejects (0: none)
\*   matches  the matches process_and_drain hands to the sink, in order
\*   scan_ok  whether process_and_drain returns Ok after them
Match(pos, captures) == [pos |-> pos, captures |-> captures]

MatchSeqs == { [i \in 1..n |-> Match(i, i % 2 = 0)] : n \in 0..MaxMatches }

Outcomes(c) ==
  [bad : 0..Len(AllPatterns(c.lhs)), matches : MatchSeqs, scan_ok : BOOLEAN]

\* the add_pattern calls up to and including the first rejected one
RECURSIVE Registrations(_, _, _, _)
Registrations(c, pats, i, bad) ==
  IF i > Len(pats) THEN <<>>
  ELSE << [ev |-> "add_pattern", lexer |-> PatternLexer(c.language),
           pattern |-> pats[i], ok |-> i # bad] >>
       \o (IF i = bad THEN <<>> ELSE Registrations(c, pats, i + 1, bad))

SinkEvents(matches) == [i \in 1..Len(matches) |-> [ev |-> "sink", match |-> matches[i]]]

\* run going on to scan with the patterns registered before the rejected one
run_partial_trie(c, outcome) ==
  [ok |-> outcome.bad = 0 /\ outcome.scan_ok,
   err |-> IF outcome.bad # 0 THEN "add_pattern"
           ELSE IF outcome.scan_ok THEN "" ELSE "process_and_drain",
   events |->
     Registrations(c, AllPatterns(c.lhs), 1, outcome.bad)
       \o << [ev |-> "Matcher::new"] >>
       \o << [ev |-> "process_and_drain", lexer |-> SubjectLexer(c.language),
              subject |-> c.subject] >>
       \o SinkEvents(outcome.matches),
   sunk |-> outcome.matches]

\* PlaygroundConfig::run(self, out): the calls it makes, in order, the matches
\* the sink received and the Result it returns
run(c, outcome) ==
  LET pats == AllPatterns(c.lhs)
      regs == Registrations(c, pats, 1, outcome.bad)
  IN IF outcome.bad # 0
     THEN [ok |-> FALSE, err |-> "add_pattern", events |-> regs, sunk |-> <<>>]
     ELSE [ok |-> outcome.scan_ok,
           err |-> IF outcome.scan_ok THEN "" ELSE "process_and_drain",
           events |->
             regs \o << [ev |-> "Matcher::new"] >>
                  \o << [ev |-> "process_and_drain",
                         lexer |-> SubjectLexer(c.language),
                         subject |-> c.subject] >>
                  \o SinkEvents(outcome.matches),
           sunk |-> outcome.matches]

\* ---------------------------------------------------------- inputs of the core
Pattern(i) == << 112, 48 + i >>

PatternSeq(n) == [i \in 1..n |-> Pattern(i)]

TestMaps == { EmptyMap, MapInsert(EmptyMap, << 107 >>, << 118 >>) }

TestUnits ==
  { MatchingUnit(PatternSeq(n), << 110 >>, <<>>, o, tr) :
      n \in 0..MaxPatterns, o \in TestMaps, tr \in TestMaps }

\* the rule lists of at most one unit
ShortLhs == { <<>> } \cup { << u >> : u \in TestUnits }

\* the longer rule lists, of units that differ in their patterns only
PlainUnits ==
  { MatchingUnit(PatternSeq(n), << 110 >>, <<>>, EmptyMap, EmptyMap) :
      n \in 0..MaxPatterns }

LongLhs == UNION { [1..n -> PlainUnits] : n \in 2..MaxUnits }

TestSubjects == { <<>>, << 120 >> }

\* every subject, language and rule list of the sets above, and the default
Configs ==
  { PlaygroundConfig(s, l, lhs) :
      s \in TestSubjects, l \in LanguageSet, lhs \in ShortLhs }
  \cup { PlaygroundConfig(s, "Rust", lhs) : s \in TestSubjects, lhs \in LongLhs }
  \cup { Default }

\* the strings from_url_str is given that are not the token of cfg
Garbled(c) ==
  LET token  == to_url_str(c)
      record == bincode_encode(c)
      frame  == zstd_encode_all(record)
  IN { [kind |-> "empty", arg |-> <<>>],
       [kind |-> "no_token", arg |-> PUBLIC_URL],
       [kind |-> "no_fragment", arg |-> StripSlash(TrunkPublicUrl)],
       [kind |-> "not_compressed", arg |-> encode_bytes(record)],
       [kind |-> "cut_frame",
        arg |-> encode_bytes(SubSeq(frame, 1, Len(frame) - 1))],
       [kind |-> "cut_record",
        arg |-> encode_bytes(zstd_encode_all(SubSeq(record, 1, Len(record) - 1)))],
       [kind |-> "not_a_record", arg |-> encode_bytes(zstd_encode_all(<< 255 >>))] }
     \cup { [kind |-> "truncated", arg |-> SubSeq(token, 1, Len(token) - k)] :
              k \in 1..MaxCut }
     \cup { [kind |-> "bad_symbol", arg |-> [token EXCEPT ![i] = "#"]] :
              i \in { 1, Len(token) } }

\* rule-list texts that are not the text of cfg: a line removed, a stray line added
Mangled(c) ==
  LET text == editor_lhs(c)
  IN { [kind |-> "line_removed",
        text |-> SubSeq(text, 1, i - 1) \o SubSeq(text, i + 1, Len(text))] :
         i \in 1..Len(text) }
     \cup { [kind |-> "stray_line",
             text |-> Append(text, Line("item", FALSE, "", <<>>, Pattern(0)))] }

\* language tags that are no value of the <select>
OtherTags == { "Rust", "js", "" }

\* ------------------------------------------------------------ inputs of the app
\* location.origin of the page
Origin == << "h", "t", "t", "p", "s", ":", "/", "/", "h", "o", "s", "t" >>

\* the text typed into the left editor: a rule list of one unit, and the same
\* text without the line of the unit's name
TypedLhs ==
  << MatchingUnit(PatternSeq(2), << 110 >>, <<>>, EmptyMap,
                  MapInsert(EmptyMap, << 107 >>, << 118 >>)) >>

TypedRules == editor_lhs(PlaygroundConfig(<<>>, "Rust", TypedLhs))

TypedRulesNameless ==
  SubSeq(TypedRules, 1, 3) \o SubSeq(TypedRules, 5, Len(TypedRules))

LeftTexts == { TypedRules, TypedRulesNameless }

\* the text typed into the right editor
RightTexts == { <<>>, << 120 >> }

\* the options of the language <select> the user picks
PickedLanguages == { "kotlin", "python" }

\* event.client_x() of the mousemove events
DragXs == { 150, 640 }

\* the addresses the page is first opened at: without a fragment, with a
\* fragment that is no token, with a token
OpenedConfig == PlaygroundConfig(<< 120 >>, "Go", TypedLhs)

OpenedToken == to_url_str(OpenedConfig)

InitialUrls ==
  { Origin \o TrunkPublicUrl,
    Origin \o << "/" >> \o PUBLIC_URL \o << "%", "2", "0" >>,
    Origin \o << "/" >> \o PUBLIC_URL \o OpenedToken }

\* ------------------------------------------------------------------- state
VARIABLES
  cfg,    \* the PlaygroundConfig the functions of io.rs are applied to
  call,   \* the last call of a function of io.rs: its arguments and its result
  left_options,        \* App.left_options: [value, language]
  right_options,       \* App.right_options: [value, language]
  left_width,          \* App.left_width
  mousemove_listener,  \* App.mousemove_listener is Some
  mouseup_listener,    \* App.mouseup_listener is Some
  current_language,    \* App.current_language
  rhs_editor,          \* App.rhs_editor holds a link
  lhs_editor,          \* App.lhs_editor holds a link
  error,               \* App.error: << >> is None, << e >> is Some(e)
  lhs_model,           \* the text of the left monaco editor
  rhs_model,           \* the text of the right monaco editor
  rhs_model_language,  \* the language of the right monaco editor's model
  decorations,         \* the elements of the last highlight_ranges_js call
  clipboard,           \* the text last handed to clipboard().write_text
  shared,              \* the config of the last link copied (<< >>: none)
  page,                \* the address the page was opened at, and how
  last,                \* the last event: the message and what update returned
  recent,              \* how the page's last Run or Copy Share Link ended
  selected,            \* the language selected last, or the one the page opened with
  handed,              \* the tag the last Run or Copy Share Link gave from_editor_parts
  accumulate,          \* the vector of the last Run when cfg.run returned
  handled              \* the messages handled and pages opened so far

coreVars == << cfg, call >>

appVars ==
  << left_options, right_options, left_width, mousemove_listener,
     mouseup_listener, current_language, rhs_editor, lhs_editor, error,
     lhs_model, rhs_model, rhs_model_language, decorations, clipboard, shared,
     page, last, recent, selected, handed, accumulate, handled >>

vars == << coreVars, appVars >>

\* ------------------------------------------------------------ page and App
\* the position of the first "#" of s (0: none)
HashAt(s) ==
  IF \A i \in 1..Len(s) : s[i] # "#" THEN 0
  ELSE CHOOSE i \in 1..Len(s) :
         s[i] = "#" /\ \A j \in 1..(i - 1) : s[j] # "#"

\* window.location of the page at url: the path up to the fragment, and the
\* fragment with its "#" (empty when nothing follows the "#")
Location(url) ==
  LET rest == SubSeq(url, Len(Origin) + 1, Len(url))
      h    == HashAt(SubSeq(url, Len(Origin) + 1, Len(url)))
  IN [pathname |-> IF h = 0 THEN rest ELSE SubSeq(rest, 1, h - 1),
      hash |-> IF h = 0 \/ h = Len(rest) THEN <<>> ELSE SubSeq(rest, h, Len(rest))]

url_path(url) == StripSlash(Location(url).pathname \o Location(url).hash)

editor_options(content, lang) == [value |-> content, language |-> lang]

\* App::create on the parts of the config decoded from the address
create(parts) ==
  [left_options |-> editor_options(parts[1], "yaml"),
   right_options |-> editor_options(parts[2], parts[3]),
   left_width |-> 500,
   mousemove_listener |-> FALSE,
   mouseup_listener |-> FALSE,
   current_language |-> parts[3],
   rhs_editor |-> FALSE,
   lhs_editor |-> FALSE,
   error |-> <<>>]

\* what update returned for msg, whether the handler took an error branch and
\* the calls of highlight_ranges_js it made
Handled(msg, render, failed, highlighted) ==
  [msg |-> msg, render |-> render, failed |-> failed, highlighted |-> highlighted]

\* format!("{}/{}{}", origin, PUBLIC_URL, path)
full_url(path) == Origin \o << "/" >> \o PUBLIC_URL \o path

\* the configs the two editors and the <select> of the app can make
AppConfigs ==
  { PlaygroundConfig(s, l, r) :
      s \in RightTexts \cup { Default.subject, OpenedConfig.subject },
      l \in { ParseLanguage(tag).val : tag \in PickedLanguages }
             \cup { Default.language, OpenedConfig.language },
      r \in { Default.lhs, TypedLhs } }

\* to_url_str of each of them, computed once
TokenTable == { << c, to_url_str(c) >> : c \in AppConfigs }

TokenOf(c) == (CHOOSE entry \in TokenTable : entry[1] = c)[2]

\* the addresses a page of the app is opened at
AppUrls == InitialUrls \cup { full_url(entry[2]) : entry \in TokenTable }

\* from_url_str(&url_path()) at each of them, computed once
LoadTable == { << url, from_url_str(url_path(url)) >> : url \in AppUrls }

LoadedAt(url) == (CHOOSE entry \in LoadTable : entry[1] = url)[2]

\* the page as first rendered at url: App::create, and the two monaco editors
\* made from the options of the first view
Opened(url) ==
  LET self == create(to_editor_parts(LoadedAt(url)))
  IN /\ left_options = self.left_options
     /\ right_options = self.right_options
     /\ left_width = self.left_width
     /\ mousemove_listener = self.mousemove_listener
     /\ mouseup_listener = self.mouseup_listener
     /\ current_language = self.current_language
     /\ rhs_editor = self.rhs_editor
     /\ lhs_editor = self.lhs_editor
     /\ error = self.error
     /\ lhs_model = self.left_options.value
     /\ rhs_model = self.right_options.value
     /\ rhs_model_language = self.right_options.language
     /\ decorations = <<>>
     /\ clipboard = <<>>
     /\ shared = <<>>
     /\ page = [url |-> url, from |-> "address"]
     /\ last = Handled("create", TRUE, FALSE, 0)
     /\ recent = "none"
     /\ selected = to_editor_parts(LoadedAt(url))[3]
     /\ handed = ""
     /\ accumulate = <<>>
     /\ handled = 0

\* ------------------------------------------------------- core specification
\* The core specification applies one function of io.rs to one config.

CoreInit ==
  /\ cfg \in Configs
  /\ call = [op |-> "none"]
  /\ Opened(Origin \o TrunkPublicUrl)

ToUrlStr ==
  /\ call.op = "none"
  /\ call' = [op |-> "to_url_str", ret |-> to_url_str(cfg)]
  /\ UNCHANGED << cfg, appVars >>

\* from_url_str on the token of cfg, bare or behind the public prefix
FromUrlStr ==
  /\ call.op = "none"
  /\ \E prefixed \in BOOLEAN :
       LET token == to_url_str(cfg)
           arg   == IF prefixed THEN PUBLIC_URL \o token ELSE token
       IN call' = [op |-> "from_url_str",
                   kind |-> IF prefixed THEN "prefixed" ELSE "token",
                   arg |-> arg, result |-> FromUrlStrRun(arg)]
  /\ UNCHANGED << cfg, appVars >>

FromUrlStrGarbled ==
  /\ call.op = "none"
  /\ \E g \in Garbled(cfg) :
       call' = [op |-> "from_url_str", kind |-> g.kind, arg |-> g.arg,
                result |-> FromUrlStrRun(g.arg)]
  /\ UNCHANGED << cfg, appVars >>

ToEditorParts ==
  /\ call.op = "none"
  /\ call' = [op |-> "to_editor_parts", ret |-> to_editor_parts(cfg)]
  /\ UNCHANGED << cfg, appVars >>

\* from_editor_parts on the parts of cfg
FromEditorParts ==
  /\ call.op = "none"
  /\ LET parts == to_editor_parts(cfg)
     IN call' = [op |-> "from_editor_parts", kind |-> "parts",
                 subject |-> parts[2], language |-> parts[3], lhs_text |-> parts[1],
                 ret |-> from_editor_parts(parts[2], parts[3], parts[1])]
  /\ UNCHANGED << cfg, appVars >>

\* from_editor_parts on an edited rule list or another language tag
FromEditorPartsEdited ==
  /\ call.op = "none"
  /\ \E e \in { [kind |-> m.kind, text |-> m.text, tag |-> monaco_language(cfg)] :
                   m \in Mangled(cfg) }
              \cup { [kind |-> "other_tag", text |-> editor_lhs(cfg), tag |-> g] :
                       g \in OtherTags } :
       call' = [op |-> "from_editor_parts", kind |-> e.kind,
                subject |-> cfg.subject, language |-> e.tag, lhs_text |-> e.text,
                ret |-> from_editor_parts(cfg.subject, e.tag, e.text)]
  /\ UNCHANGED << cfg, appVars >>

RunConfig ==
  /\ call.op = "none"
  /\ \E outcome \in Outcomes(cfg) :
       call' = [op |-> "run", outcome |-> outcome, ret |-> run(cfg, outcome)]
  /\ UNCHANGED << cfg, appVars >>

CoreNext ==
  \/ ToUrlStr
  \/ FromUrlStr
  \/ FromUrlStrGarbled
  \/ ToEditorParts
  \/ FromEditorParts
  \/ FromEditorPartsEdited
  \/ RunConfig

SpecCore == CoreInit /\ [][CoreNext]_vars

\* -------------------------------------------------------- app specification
Init ==
  /\ cfg = Default
  /\ call = [op |-> "none"]
  /\ \E url \in InitialUrls : Opened(url)

\* on_editor_created of the left editor
LhsEditorCreated ==
  /\ ~lhs_editor
  /\ lhs_editor' = TRUE
  /\ last' = Handled("on_editor_created", FALSE, FALSE, 0)
  /\ UNCHANGED << coreVars, left_options, right_options, left_width,
                  mousemove_listener, mouseup_listener, current_language,
                  rhs_editor, error, lhs_model, rhs_model, rhs_model_language,
                  decorations, clipboard, shared, page, recent, selected, handed,
                  accumulate, handled >>

\* on_editor_created of the right editor
RhsEditorCreated ==
  /\ ~rhs_editor
  /\ rhs_editor' = TRUE
  /\ last' = Handled("on_editor_created", FALSE, FALSE, 0)
  /\ UNCHANGED << coreVars, left_options, right_options, left_width,
                  mousemove_listener, mouseup_listener, current_language,
                  lhs_editor, error, lhs_model, rhs_model, rhs_model_language,
                  decorations, clipboard, shared, page, recent, selected, handed,
                  accumulate, handled >>

\* the user types in the left editor, once it is there
EditLeft ==
  /\ lhs_editor
  /\ \E text \in LeftTexts : text # lhs_model /\ lhs_model' = text
  /\ last' = Handled("edit", FALSE, FALSE, 0)
  /\ UNCHANGED << coreVars, left_options, right_options, left_width,
                  mousemove_listener, mouseup_listener, current_language,
                  rhs_editor, lhs_editor, error, rhs_model, rhs_model_language,
                  decorations, clipboard, shared, page, recent, selected, handed,
                  accumulate, handled >>

\* the user types in the right editor, once it is there
EditRight ==
  /\ rhs_editor
  /\ \E text \in RightTexts : text # rhs_model /\ rhs_model' = text
  /\ last' = Handled("edit", FALSE, FALSE, 0)
  /\ UNCHANGED << coreVars, left_options, right_options, left_width,
                  mousemove_listener, mouseup_listener, current_language,
                  rhs_editor, lhs_editor, error, lhs_model, rhs_model_language,
                  decorations, clipboard, shared, page, recent, selected, handed,
                  accumulate, handled >>

language_tag_of_options == right_options.language

\* the language tag update hands from_editor_parts
language_tag == current_language

\* editor.with_editor(get_model().get_value()), else the value of the options
lhs_content == IF lhs_editor THEN lhs_model ELSE left_options.value

rhs_content == IF rhs_editor THEN rhs_model ELSE right_options.value

\* the error branches of Msg::CopyShareLink | Msg::Run with the options left
\* as they were
RunOrShareErrorReverting(msg, e) ==
  /\ error' = << e >>
  /\ last' = Handled(msg, TRUE, TRUE, 0)
  /\ recent' = "failed"
  /\ UNCHANGED << left_options, right_options, decorations, clipboard, shared >>

\* the error branches of Msg::CopyShareLink | Msg::Run
RunOrShareError(msg, e) ==
  /\ right_options' = editor_options(rhs_content, current_language)
  /\ left_options' = editor_options(lhs_content, "yaml")
  /\ error' = << e >>
  /\ last' = Handled(msg, TRUE, TRUE, 0)
  /\ recent' = "failed"
  /\ UNCHANGED << decorations, clipboard, shared >>

\* the HighlightElement the sink of Msg::Run pushes for one match
HighlightElement(match) ==
  [pos |-> match.pos, class_name |-> "match-highlight",
   text |-> IF match.captures THEN "name: {captures}" ELSE "name"]

Accumulate(sunk) == [i \in 1..Len(sunk) |-> HighlightElement(sunk[i])]

RunReturnedHighlightingFirst(ret) ==
  /\ accumulate' = Accumulate(ret.sunk)
  /\ decorations' = IF rhs_editor THEN accumulate' ELSE decorations
  /\ IF ~ret.ok
     THEN /\ right_options' = editor_options(rhs_content, current_language)
          /\ left_options' = editor_options(lhs_content, "yaml")
          /\ error' = << ret.err >>
          /\ last' = Handled("Run", TRUE, TRUE, IF rhs_editor THEN 1 ELSE 0)
          /\ recent' = "failed"
          /\ UNCHANGED << clipboard, shared >>
     ELSE /\ error' = <<>>
          /\ last' = Handled("Run", error # <<>>, FALSE, IF rhs_editor THEN 1 ELSE 0)
          /\ recent' = "ok"
          /\ UNCHANGED << left_options, right_options, clipboard, shared >>

\* Msg::Run once cfg.run has returned
RunReturned(ret) ==
  /\ accumulate' = Accumulate(ret.sunk)
  /\ IF ~ret.ok
     THEN RunOrShareError("Run", ret.err)
     ELSE /\ error' = <<>>
          /\ decorations' = IF rhs_editor THEN accumulate' ELSE decorations
          /\ last' = Handled("Run", error # <<>>, FALSE, IF rhs_editor THEN 1 ELSE 0)
          /\ recent' = "ok"
          /\ UNCHANGED << left_options, right_options, clipboard, shared >>

\* what the matching engine does in a run of the app: as in Outcomes, the
\* matches none or as many as can be
AppOutcomes(c) == { o \in Outcomes(c) : Len(o.matches) \in { 0, MaxMatches } }

\* Msg::Run once from_editor_parts has returned
RunParsed(parsed) ==
  IF ~parsed.ok THEN RunOrShareError("Run", parsed.err) /\ accumulate' = <<>>
  ELSE \E outcome \in AppOutcomes(parsed.val) : RunReturned(run(parsed.val, outcome))

Run ==
  /\ handled < MaxMsgs
  /\ handled' = handled + 1
  /\ RunParsed(from_editor_parts(rhs_content, language_tag, lhs_content))
  /\ handed' = language_tag
  /\ UNCHANGED << coreVars, left_width, mousemove_listener, mouseup_listener,
                  current_language, rhs_editor, lhs_editor, lhs_model, rhs_model,
                  rhs_model_language, page, selected >>

ShareParsedKeepingError(parsed) ==
  IF ~parsed.ok THEN RunOrShareError("CopyShareLink", parsed.err)
  ELSE /\ error' = error
       /\ clipboard' = full_url(TokenOf(parsed.val))
       /\ shared' = << parsed.val >>
       /\ last' = Handled("CopyShareLink", error # <<>>, FALSE, 0)
       /\ recent' = "ok"
       /\ UNCHANGED << left_options, right_options, decorations >>

\* Msg::CopyShareLink once from_editor_parts has returned
ShareParsed(parsed) ==
  IF ~parsed.ok THEN RunOrShareError("CopyShareLink", parsed.err)
  ELSE /\ error' = <<>>
       /\ clipboard' = full_url(TokenOf(parsed.val))
       /\ shared' = << parsed.val >>
       /\ last' = Handled("CopyShareLink", error # <<>>, FALSE, 0)
       /\ recent' = "ok"
       /\ UNCHANGED << left_options, right_options, decorations >>

CopyShareLink ==
  /\ handled < MaxMsgs
  /\ handled' = handled + 1
  /\ ShareParsed(from_editor_parts(rhs_content, language_tag, lhs_content))
  /\ handed' = language_tag
  /\ UNCHANGED << coreVars, left_width, mousemove_listener, mouseup_listener,
                  current_language, rhs_editor, lhs_editor, lhs_model, rhs_model,
                  rhs_model_language, page, selected, accumulate >>

StartDrag ==
  /\ handled < MaxMsgs
  /\ handled' = handled + 1
  /\ mousemove_listener' = TRUE
  /\ mouseup_listener' = TRUE
  /\ last' = Handled("StartDrag", FALSE, FALSE, 0)
  /\ UNCHANGED << coreVars, left_options, right_options, left_width,
                  current_language, rhs_editor, lhs_editor, error, lhs_model,
                  rhs_model, rhs_model_language, decorations, clipboard, shared,
                  page, recent, selected, handed, accumulate >>

\* Msg::Drag(x), which the mousemove listener sends
Drag ==
  /\ handled < MaxMsgs
  /\ mousemove_listener
  /\ handled' = handled + 1
  /\ \E x \in DragXs : left_width' = IF x > 200 THEN x ELSE 200
  /\ left_options' = editor_options(lhs_content, "yaml")
  /\ right_options' = editor_options(rhs_content, current_language)
  /\ last' = Handled("Drag", TRUE, FALSE, 0)
  /\ UNCHANGED << coreVars, mousemove_listener, mouseup_listener,
                  current_language, rhs_editor, lhs_editor, error, lhs_model,
                  rhs_model, rhs_model_language, decorations, clipboard, shared,
                  page, recent, selected, handed, accumulate >>

\* Msg::StopDrag, which the mouseup listener sends
StopDrag ==
  /\ handled < MaxMsgs
  /\ mouseup_listener
  /\ handled' = handled + 1
  /\ mousemove_listener' = FALSE
  /\ mouseup_listener' = FALSE
  /\ last' = Handled("StopDrag", FALSE, FALSE, 0)
  /\ UNCHANGED << coreVars, left_options, right_options, left_width,
                  current_language, rhs_editor, lhs_editor, error, lhs_model,
                  rhs_model, rhs_model_language, decorations, clipboard, shared,
                  page, recent, selected, handed, accumulate >>

\* Msg::LanguageChanged(select.value())
LanguageChanged ==
  /\ handled < MaxMsgs
  /\ handled' = handled + 1
  /\ \E lang \in PickedLanguages :
       /\ current_language' = lang
       /\ rhs_model_language' = IF rhs_editor THEN lang ELSE rhs_model_language
       /\ selected' = lang
  /\ last' = Handled("LanguageChanged", FALSE, FALSE, 0)
  /\ UNCHANGED << coreVars, left_options, right_options, left_width,
                  mousemove_listener, mouseup_listener, rhs_editor, lhs_editor,
                  error, lhs_model, rhs_model, decorations, clipboard, shared,
                  page, recent, handed, accumulate >>

\* the link on the clipboard is opened: the page is loaded anew at its address
OpenShareLink ==
  /\ handled < MaxMsgs
  /\ clipboard # <<>>
  /\ handled' = handled + 1
  /\ LET self == create(to_editor_parts(LoadedAt(clipboard)))
     IN /\ left_options' = self.left_options
        /\ right_options' = self.right_options
        /\ left_width' = self.left_width
        /\ mousemove_listener' = self.mousemove_listener
        /\ mouseup_listener' = self.mouseup_listener
        /\ current_language' = self.current_language
        /\ rhs_editor' = self.rhs_editor
        /\ lhs_editor' = self.lhs_editor
        /\ error' = self.error
        /\ lhs_model' = self.left_options.value
        /\ rhs_model' = self.right_options.value
        /\ rhs_model_language' = self.right_options.language
  /\ decorations' = <<>>
  /\ page' = [url |-> clipboard, from |-> "link"]
  /\ last' = Handled("create", TRUE, FALSE, 0)
  /\ recent' = "none"
  /\ selected' = to_editor_parts(LoadedAt(clipboard))[3]
  /\ handed' = ""
  /\ accumulate' = <<>>
  /\ UNCHANGED << coreVars, clipboard, shared >>

Next ==
  \/ LhsEditorCreated
  \/ RhsEditorCreated
  \/ EditLeft
  \/ EditRight
  \/ Run
  \/ CopyShareLink
  \/ StartDrag
  \/ Drag
  \/ StopDrag
  \/ LanguageChanged
  \/ OpenShareLink

Spec == Init /\ [][Next]_vars

\* ------------------------------------------------------------ claims (core)
\* C1: decoding the token of a config gives back the config, an empty subject,
\* an empty rule list and a unit without patterns included.
C1_RoundTrip ==
  (call.op = "from_url_str" /\ call.kind = "token") => call.result.cfg = cfg

\* the first stage of from_url_str that fails on s (0: none), found by
\* applying the three stages one after the other
FailedAtDeserialize(record) == IF bincode_decode(record).ok THEN 0 ELSE 3

FailedAtDecompress(bytes) ==
  IF ~zstd_decode_all(bytes).ok THEN 2
  ELSE FailedAtDeserialize(zstd_decode_all(bytes).val)

FailedAtDecode(s) ==
  IF ~decode_bytes(s).ok THEN 1 ELSE FailedAtDecompress(decode_bytes(s).val)

FailedStage(s) == FailedAtDecode(UrlToken(s))

\* inputs that are no encoding whatever the config they were made from
NeverValid ==
  { "empty", "no_token", "no_fragment", "not_compressed", "cut_frame",
    "not_a_record", "truncated", "bad_symbol" }

\* C2: from_url_str always returns a config; on an input that is no valid
\* encoding it returns the default; the stage that fails is the last one run.
C2_GracefulDegradation ==
  call.op = "from_url_str" =>
    LET failed == FailedStage(call.arg)
    IN /\ call.result.cfg.language \in LanguageSet
       /\ call.kind \in NeverValid => call.result.cfg = Default
       /\ failed # 0 =>
            /\ call.result.cfg = Default
            /\ call.result.ran = SubSeq(AllStages, 1, failed)
       /\ failed = 0 => call.result.ran = AllStages

C2_Witness ==
  /\ call.op = "from_url_str"
  /\ call.kind = "cut_frame"
  /\ FailedStage(call.arg) = 2
  /\ call.result.cfg = Default
  /\ cfg # Default

\* C3: the token decodes to the config with or without the public prefix, the
\* prefix is stripped exactly when the input starts with it, and the bare
\* token is never taken for a prefixed one.
C3_PrefixTolerance ==
  (call.op = "from_url_str" /\ call.kind \in { "token", "prefixed" }) =>
    /\ call.result.cfg = from_url_str(to_url_str(cfg))
    /\ from_url_str(to_url_str(cfg)) = cfg
    /\ UrlToken(call.arg) = to_url_str(cfg)
    /\ StartsWith(call.arg, PUBLIC_URL) <=> call.kind = "prefixed"

RegisteredBefore(events, j) ==
  Cardinality({ i \in 1..(j - 1) : events[i].ev = "add_pattern" /\ events[i].ok })

Rejected(events) ==
  \E i \in 1..Len(events) : events[i].ev = "add_pattern" /\ ~events[i].ok

\* C5: when a pattern is rejected run returns an error and the sink is never
\* called; the matcher is built and the subject scanned only once every
\* pattern of every unit is registered.
C5_FailureIsolation ==
  call.op = "run" =>
    /\ Rejected(call.ret.events) =>
         /\ ~call.ret.ok
         /\ call.ret.sunk = <<>>
         /\ \A i \in 1..Len(call.ret.events) : call.ret.events[i].ev = "add_pattern"
    /\ \A j \in 1..Len(call.ret.events) :
         call.ret.events[j].ev # "add_pattern" =>
           RegisteredBefore(call.ret.events, j) = Len(AllPatterns(cfg.lhs))

C5_Witness ==
  /\ call.op = "run"
  /\ call.outcome.bad = 2
  /\ call.outcome.matches # <<>>
  /\ Len(call.ret.events) = 2
  /\ call.ret.events[1].ok
  /\ ~call.ret.ok

\* C6: from_editor_parts returns an error with a message when the rule list or
\* the language tag does not parse, never a default config; the config it
\* returns otherwise is made of the parsed rule list, the parsed language and
\* the subject as given.
C6_EditingFailVisible ==
  call.op = "from_editor_parts" =>
    /\ (~ParseLhs(call.lhs_text).ok \/ ~ParseLanguage(call.language).ok) =>
         /\ ~call.ret.ok
         /\ call.ret.err # ""
    /\ call.kind \in { "stray_line", "other_tag" } => ~call.ret.ok
    /\ call.ret.ok =>
         /\ ParseLhs(call.lhs_text).ok
         /\ ParseLanguage(call.language).ok
         /\ call.ret.val =
              PlaygroundConfig(call.subject, ParseLanguage(call.language).val,
                               ParseLhs(call.lhs_text).val)

C6_Witness ==
  /\ call.op = "from_editor_parts"
  /\ call.kind = "line_removed"
  /\ ~ParseLhs(call.lhs_text).ok
  /\ ~call.ret.ok
  /\ call.ret.err = "missing field"

\* the lexer family and bracket convention of each language
FamilyOf(language) ==
  CASE language \in { "C", "Cpp", "CSharp", "Java", "Go", "Js", "Ts", "Kotlin" } -> "CLike"
    [] language = "Py" -> "PythonLike"
    [] language = "Rust" -> "RustLike"

BracketOn(language) == language \in { "Go", "Js", "Ts", "Kotlin" }

\* lexer is of the family of the language, with its bracket convention and
\* the given pattern-metacharacter mode
LexerIs(lexer, language, mode) ==
  /\ lexer.family = FamilyOf(language)
  /\ lexer.family = "CLike" => lexer.args = << BracketOn(language), mode >>
  /\ lexer.family # "CLike" => lexer.args = << mode >>

\* C8: every language has one lexer family; the lexers of the patterns and of
\* the subject of one run are of that family with the same bracket flag, the
\* pattern-metacharacter mode on for the patterns and off for the subject.
C8_LexerDispatch ==
  call.op = "run" =>
    \A i \in 1..Len(call.ret.events) :
      /\ call.ret.events[i].ev = "add_pattern" =>
           LexerIs(call.ret.events[i].lexer, cfg.language, TRUE)
      /\ call.ret.events[i].ev = "process_and_drain" =>
           LexerIs(call.ret.events[i].lexer, cfg.language, FALSE)

C8_Witness ==
  /\ call.op = "run"
  /\ cfg.language = "Kotlin"
  /\ call.ret.ok
  /\ Len(call.ret.events) >= 3
  /\ call.ret.events[1].ev = "add_pattern"
  /\ call.ret.events[1].lexer = CLike(TRUE, TRUE)
  /\ \E i \in 1..Len(call.ret.events) :
       /\ call.ret.events[i].ev = "process_and_drain"
       /\ call.ret.events[i].lexer = CLike(TRUE, FALSE)

\* ------------------------------------------------------------- claims (app)
\* the messages cfg.run returns as its error
RunErrors == { "add_pattern", "process_and_drain" }

\* C7: after a Run or a Copy Share Link that failed, the options of the two
\* editors hold the text the user has in the editors, the error of the failed
\* step is stored, and update has asked for a render.
C7_FailurePreservesText ==
  (last.msg \in { "Run", "CopyShareLink" } /\ last.failed) =>
    /\ left_options.value = lhs_model
    /\ right_options.value = rhs_model
    /\ Len(error) = 1
    /\ ~from_editor_parts(rhs_model, current_language, lhs_model).ok =>
         error = << from_editor_parts(rhs_model, current_language, lhs_model).err >>
    /\ from_editor_parts(rhs_model, current_language, lhs_model).ok =>
         last.msg = "Run" /\ error[1] \in RunErrors
    /\ last.render

C7_Witness ==
  /\ last.msg = "Run"
  /\ last.failed
  /\ lhs_model = TypedRulesNameless
  /\ rhs_model = << 120 >>
  /\ page.url = Origin \o TrunkPublicUrl
  /\ left_options.value = TypedRulesNameless
  /\ right_options.value = << 120 >>
  /\ error = << "missing field" >>
  /\ last.render

\* C9: the default config has a subject, one unit, one pattern in it and a
\* transform; a page opened without a token, or with one that does not decode,
\* shows a rule list and a subject that are not empty, and no error.
C9_DefaultIsExample ==
  /\ Default.subject # <<>>
  /\ Len(Default.lhs) = 1
  /\ Len(Default.lhs[1].patterns) = 1
  /\ Default.lhs[1].transform # EmptyMap
  /\ (/\ last.msg = "create"
      /\ \/ Location(page.url).hash = <<>>
         \/ FailedStage(url_path(page.url)) # 0) =>
       /\ ParseLhs(left_options.value).ok
       /\ ParseLhs(left_options.value).val # <<>>
       /\ right_options.value # <<>>
       /\ error = <<>>

C9_Witness ==
  /\ last.msg = "create"
  /\ page.from = "address"
  /\ Location(page.url).hash # <<>>
  /\ FailedStage(url_path(page.url)) = 1
  /\ left_options.value = editor_lhs(Default)
  /\ right_options.value = Default.subject

\* C10: the link copied is origin + "/" + PUBLIC_URL + token; the page opened
\* at it hands from_url_str a string that starts with PUBLIC_URL and goes on
\* with exactly the token, and its editors show the config that was shared.
C10_ShareThenLoad ==
  (last.msg = "create" /\ page.from = "link") =>
    /\ page.url = Origin \o << "/" >> \o PUBLIC_URL \o to_url_str(shared[1])
    /\ StartsWith(url_path(page.url), PUBLIC_URL)
    /\ UrlToken(url_path(page.url)) = to_url_str(shared[1])
    /\ << left_options.value, right_options.value, current_language >>
         = to_editor_parts(shared[1])

\* the messages of the pane divider and of the language select
DragAndLanguageMsgs == { "StartDrag", "Drag", "StopDrag", "LanguageChanged" }

\* C11: the error is stored exactly when the page's last Run or Copy Share
\* Link failed; a Run or Copy Share Link that succeeds leaves no error and
\* asks for a render exactly when an error was stored before it, one that
\* fails asks for a render; StartDrag, Drag, StopDrag and LanguageChanged
\* leave the stored error as it was.
C11_ErrorLifecycle ==
  /\ [](error # <<>> <=> recent = "failed")
  /\ [][
        /\ (last'.msg \in { "Run", "CopyShareLink" }) =>
             /\ (last'.failed <=> error' # <<>>)
             /\ (last'.failed <=> recent' = "failed")
             /\ (~last'.failed => (last'.render <=> error # <<>>))
             /\ (last'.failed => last'.render)
        /\ (last'.msg \in DragAndLanguageMsgs) => (error' = error)
     ]_vars

\* a Run that succeeds while the error of a failed one is stored
C11_Witness ==
  /\ last.msg = "Run"
  /\ ~last.failed
  /\ last.render
  /\ recent = "ok"
  /\ error = <<>>
  /\ rhs_editor
  /\ handled = 2

\* C12: the tag a Run or Copy Share Link hands from_editor_parts is the
\* language selected last, or the display language of the config the page
\* opened with when none was selected since; LanguageChanged sets the current
\* language, and the language of the right editor's model when the editor is
\* there, and leaves the text of the editors, their options, the pane width,
\* the drag listeners, the stored error and the rest of the page as they were.
C12_LanguageSelection ==
  /\ [](last.msg \in { "Run", "CopyShareLink" } => handed = selected)
  /\ [](last.msg = "create" =>
          selected = monaco_language(from_url_str(url_path(page.url))))
  /\ [][
        (last'.msg = "LanguageChanged") =>
          /\ current_language' = selected'
          /\ rhs_model_language' =
               (IF rhs_editor THEN selected' ELSE rhs_model_language)
          /\ UNCHANGED << lhs_model, rhs_model, left_options, right_options,
                          left_width, mousemove_listener, mouseup_listener,
                          error, lhs_editor, rhs_editor, decorations,
                          clipboard >>
     ]_vars

\* a Run with the language picked in the select, which is not the one the
\* right editor was opened with
C12_Witness ==
  /\ last.msg = "Run"
  /\ ~last.failed
  /\ handed = "kotlin"
  /\ right_options.language # "kotlin"
  /\ rhs_model_language = "kotlin"

====
